---------------------------- MODULE Spec2Model ----------------------------
(***************************************************************************)
(* Resumable chunked downloader (src/core/downloader.py).                  *)
(*                                                                         *)
(* One run of Downloader._download_with_resume against a server that may   *)
(* answer every request with any status, any body length, or not at all    *)
(* (a network exception).  Bytes are modelled one by one: the destination  *)
(* file is a sequence of tags telling where each byte came from.           *)
(***************************************************************************)
EXTENDS Integers, Sequences, FiniteSets, TLC

(* ------------------------------ bounds -------------------------------- *)

\* largest resource the server holds, in bytes
MaxTotal == 10
\* largest chunk_size parameter
MaxChunk == 4
\* the history counter of 403 answers stops counting here (the code has no
\* such counter and never stops retrying)
Max403 == 2
\* length of the body of an error page
ErrPageLen == 1

Min(a, b) == IF a <= b THEN a ELSE b
Max(a, b) == IF a >= b THEN a ELSE b

(* ------------------- text of header values (strings) ------------------ *)

DigitChars == <<"0", "1", "2", "3", "4", "5", "6", "7", "8", "9">>

DigitVal(c) == (CHOOSE i \in 1..10 : DigitChars[i] = c) - 1

IsDigit(c) == \E i \in 1..10 : DigitChars[i] = c

\* str(n) for n >= 0: what the server writes into a header
RECURSIVE FormatInt(_)
FormatInt(n) ==
    IF n < 10 THEN <<DigitChars[n + 1]>>
    ELSE FormatInt(n \div 10) \o <<DigitChars[(n % 10) + 1]>>

\* Python's int(s) on the header texts the model's server sends: decimal
\* digits give their value, anything else raises ValueError
IntOk(s) == s # <<>> /\ \A i \in 1..Len(s) : IsDigit(s[i])

RECURSIVE IntValue(_)
IntValue(s) ==
    IF Len(s) = 0 THEN 0
    ELSE 10 * IntValue(SubSeq(s, 1, Len(s) - 1)) + DigitVal(s[Len(s)])

\* s.split("/")[-1]
LastSegment_first(s) ==
    IF \E i \in 1..Len(s) : s[i] = "/"
    THEN LET p == CHOOSE i \in 1..Len(s) :
                     s[i] = "/" /\ \A j \in 1..(i - 1) : s[j] # "/"
         IN  SubSeq(s, 1, p - 1)
    ELSE s

LastSegment(s) ==
    IF \E i \in 1..Len(s) : s[i] = "/"
    THEN LET p == CHOOSE i \in 1..Len(s) :
                     s[i] = "/" /\ \A j \in (i + 1)..Len(s) : s[j] # "/"
         IN  SubSeq(s, p + 1, Len(s))
    ELSE s

(* --------------------- pure steps of the downloader ------------------- *)

\* resp.status_code in (200, 206) / == 403 / else
StatusBranch_403fails(st) ==
    IF st \in {200, 206} THEN "accept" ELSE "fail"

StatusBranch(st) ==
    IF st \in {200, 206} THEN "accept"
    ELSE IF st = 403 THEN "retry"
    ELSE "fail"

\* _get_file_size, after the GET returned: the size, or the exception
GetFileSize(r) ==
    IF r.status \in {200, 206}
    THEN IF "Content-Range" \in DOMAIN r.headers
         THEN LET t == LastSegment(r.headers["Content-Range"])
              IN  IF IntOk(t) THEN [ok |-> TRUE, size |-> IntValue(t)]
                  ELSE [ok |-> FALSE, size |-> -1]
         ELSE IF "Content-Length" \in DOMAIN r.headers
         THEN LET t == r.headers["Content-Length"]
              IN  IF IntOk(t) THEN [ok |-> TRUE, size |-> IntValue(t)]
                  ELSE [ok |-> FALSE, size |-> -1]
         ELSE [ok |-> FALSE, size |-> -1]
    ELSE [ok |-> FALSE, size |-> -1]

\* downloaded = os.path.getsize(output) if it exists, else 0
ResumeOffset_zero(f) == 0

ResumeOffset(f) == Len(f)

\* mode = "ab" if downloaded > 0 else "wb"
OpenMode_truncate(d) == "wb"

OpenMode(d) == IF d > 0 THEN "ab" ELSE "wb"

\* while downloaded < size
LoopContinues_inclusive(d, sz) == d <= sz

LoopContinues(d, sz) == d < sz

\* end = min(downloaded + chunk_size - 1, size - 1)
ChunkEnd_overlap(d, c, sz) == Min(d + c, sz - 1)

ChunkEnd(d, c, sz) == Min(d + c - 1, sz - 1)

\* downloaded = end + 1
NextDownloaded_skip(e) == e + 2

NextDownloaded_stay(e) == e

NextDownloaded(e) == e + 1

\* range_headers = headers.copy(); range_headers["Range"] = ...
RangeHeaders(h) == h \cup {"Range"}

\* the fallback GET is sent with headers=headers
FallbackHeaders_ranged(h) == h \cup {"Range"}

FallbackHeaders(h) == h

\* elif resp.status_code == 403: ...; continue
RetryTarget_abort == "fallback"

RetryTarget == "loop"

\* except Exception as e: ...; return self._download_fallback(...)
ExceptTarget_return == "done"

ExceptTarget_retry == "loop"

ExceptTarget == "fallback"

\* with open(output, mode) as f: whether f is still open once a return or
\* an exception has left the block
OpenAfterWith_leak == TRUE

OpenAfterWith == FALSE

\* if self.progress_callback: ...update(...) else: print(...): where the
\* loop goes on after the report, with a callback (cb) or without
ProgressTarget_printstops(cb) == IF cb THEN "loop" ELSE "done"

ProgressTarget(cb) == "loop"

\* if not self.progress_callback: print(); ...; return True
ExitResult_silentfails(cb) == cb

ExitResult(cb) == TRUE

\* with open(output, "wb") as f, in _download_fallback
FallbackMode_append == "ab"

FallbackMode == "wb"

\* else: ...; return False
FailTarget_raise == "fallback"

FailTarget == "done"

\* n bytes written by one pass of f.write, all from the same origin
Bytes(n, tag) == [i \in 1..n |-> tag]


(* ------------------------------ state --------------------------------- *)

VARIABLES
    pc,          \* where the run stands
    srvTotal,    \* length of the resource the server holds
    chunk_size,  \* the chunk_size parameter
    headers,     \* the caller's header mapping (its names)
    initLen,     \* bytes the destination held when the run started
    file,        \* the destination file, one tag per byte
    mode,        \* mode of the latest open() of the destination, "" if none
    isOpen,      \* a handle on the destination is open
    resp,        \* the probe's response, kept until the run's next step
    size,        \* total size returned by the probe, -1 while unknown
    downloaded,  \* the loop's counter
    req,         \* range of the latest ranged request
    last,        \* how the latest ranged request ended
    reqs,        \* every HTTP request sent (a retried range is listed once)
    accepted,    \* ranges whose responses were accepted
    events,      \* ProgressEvents emitted
    n403,        \* 403 answers seen, counted up to Max403
    fallbacks,   \* times _download_fallback was entered
    result,      \* what the run returned: "none", TRUE or FALSE
    url,         \* the url argument of download()
    cookies,     \* the caller's cookie mapping (its names)
    clock,       \* datetime.now(), in seconds
    output,      \* the output path download() generated
    calls,       \* download() calls made so far
    stale,       \* bytes left under the path of the previous call, -1 if none
    ret,         \* the tuple download() returned, NoRet before
    fix,         \* how _fix_mp4 ended in this call, "none" if it did not run
    no_auth,     \* the no_auth argument of download()
    headers_file,  \* entries of the headers_file argument, {} if none
    cookies_file,  \* entries of the cookies_file argument, {} if none
    defHeaders,  \* the module's DEFAULT_HEADERS table as it stands
    defCookies,  \* the module's DEFAULT_COOKIES table as it stands
    sink,        \* a progress_callback is attached to the Downloader
    gq,          \* GUI: per operation, its progress queue, oldest message first
    wk,          \* GUI: per operation, where its worker thread stands
    wok,         \* GUI: per operation, the success flag download() returned
    puts,        \* GUI: per operation, messages download() has put
    gpc,         \* GUI: what the GUI thread is doing
    pending,     \* GUI: _check_queue callbacks scheduled with after()
    bar,         \* GUI: progress_var
    label,       \* GUI: text of status_label
    logn,        \* GUI: lines in log_text
    button,      \* GUI: state of start_button
    stage,       \* Pipeline.run: the stage it stands before
    results,     \* Pipeline.run: keys of its results dict, in insertion order
    ran,         \* Pipeline.run: the stages it has run, in order
    completed,   \* Pipeline.run: the stages that returned success, in order
    success,     \* Pipeline.run: the flag it returned, "none" before
    queues,      \* app: every queue.Queue() made so far, oldest message first
    progress_queue,  \* app: index in queues of self.progress_queue, 0 if None
    workers,     \* app: per operation, where its worker thread stands
    bound,       \* app: per operation, the queue its ProgressCallback holds
    tabOf,       \* app: per operation, the tab whose Start launched it
    buttons,     \* app: per tab, state of its start button
    polls,       \* app: per tab, _check_queue callbacks scheduled for it
    gui,         \* app: what the GUI thread is doing, and for which tab
    shown,       \* app: <<tab of the sender, tab of the widgets>> handled so far
    whisper,     \* Transcriber: self._model, NoModel or what was loaded
    current_model_size,  \* Transcriber: self._current_model_size
    current_device,      \* Transcriber: self._current_device
    lastCall,    \* Transcriber: the latest transcribe() call and how it went
    lines,       \* _split_into_chunks: text.split("\n"), each line as its length
    max_tokens,  \* _split_into_chunks: its parameter
    overlap,     \* _split_into_chunks: its parameter
    chunks,      \* _split_into_chunks: the chunks appended so far
    current_chunk,   \* _split_into_chunks: the chunk being filled
    current_length,  \* _split_into_chunks: its running length
    lineNo       \* _split_into_chunks: lines consumed; -1 once it returned

\* what belongs to download(), around _download_with_resume
\* the window of gui_simple_download.py: its widgets, queue and worker
guiVars == <<gq, wk, wok, puts, gpc, pending, bar, label, logn, button>>

\* Pipeline.run of pipeline.py
pipeVars == <<stage, results, ran, completed, success>>

\* the callers of download()
\* VideoDownloaderApp of gui_complete.py
appVars == <<queues, progress_queue, workers, bound, tabOf, buttons, polls,
             gui, shown>>

\* Transcriber's model cache and Analyzer._split_into_chunks
libVars == <<whisper, current_model_size, current_device, lastCall, lines,
             max_tokens, overlap, chunks, current_chunk, current_length,
             lineNo>>

hostVars == <<guiVars, pipeVars, appVars, libVars>>

callVars == <<url, cookies, clock, output, calls, stale, ret, fix, no_auth,
              headers_file, cookies_file, defHeaders, defCookies, sink,
              hostVars>>

vars == <<pc, srvTotal, chunk_size, headers, initLen, file, mode, isOpen, resp,
          size, downloaded, req, last, reqs, accepted, events, n403,
          fallbacks, result, url, cookies, clock, output, calls, stale, ret,
          fix, no_auth, headers_file, cookies_file, defHeaders, defCookies,
          sink, hostVars>>

\* names of DEFAULT_HEADERS, and of the minimal set of no_auth mode
DEFAULT_HEADERS ==
    {"accept", "accept-encoding", "accept-language", "referer", "sec-ch-ua",
     "sec-ch-ua-mobile", "sec-ch-ua-platform", "sec-fetch-dest",
     "sec-fetch-mode", "sec-fetch-site", "user-agent"}

MinimalHeaders == {"User-Agent"}

\* names of DEFAULT_COOKIES; no_auth mode sends no cookie
DEFAULT_COOKIES ==
    {"_gcl_au", "_clck", "_fbp", "_tt_enable_cookie", "_ttp", "_clsk",
     "_rdt_uuid", "ttcsid", "ttcsid_CVIMF5BC77U1CRGDMDK0"}

\* An entry of a mapping is written as its name when it has the built-in
\* value and as name=file when its value comes from an override file.
FileEntryName ==
    ("referer=file" :> "referer") @@ ("x-api-key=file" :> "x-api-key")
    @@ ("_fbp=file" :> "_fbp") @@ ("session=file" :> "session")

NameOf(e) == IF e \in DOMAIN FileEntryName THEN FileEntryName[e] ELSE e

\* d.update(f): the entries of f replace those of d with the same name
Update(d, f) == {e \in d : NameOf(e) \notin {NameOf(x) : x \in f}} \cup f

\* no override file (or one holding an empty object)
NoFile == {}

\* override files: one entry replaces a default, one adds a name
HeaderFiles == {NoFile, {"referer=file", "x-api-key=file"}}

CookieFiles == {NoFile, {"_fbp=file", "session=file"}}

\* the local mapping download() builds from a default table d and a file f
PrepareMapping_filefirst(na, d, f, minimal) == Update(IF na THEN minimal ELSE d, f)

PrepareMapping(na, d, f, minimal) == IF na THEN minimal ELSE Update(d, f)

\* the module-level table after that: download() updates a copy of it
TableAfter_alias(na, d, f) == IF na THEN d ELSE Update(d, f)

TableAfter(na, d, f) == d

\* urls, as the file name of their path: name and extension
URLs == {[name |-> "clip", ext |-> ".mp4"], [name |-> "talk", ext |-> ".MP3"]}

\* url.lower(), on the extension
Lower(ext) == IF ext = ".MP3" THEN ".mp3" ELSE ext

\* _detect_file_type
DetectFileType(u) ==
    IF Lower(u.ext) \in {".mp3", ".m4a", ".wav", ".aac", ".flac", ".ogg"}
    THEN "audio"
    ELSE "video"

\* _generate_output_filename: f"{name_without_ext}_{timestamp}{ext}"
GenerateOutputFilename(u, now) == [name |-> u.name, ts |-> now, suffix |-> u.ext]

\* f"{base_name}_fixed.mp4"
FixedFile(out) == [name |-> out.name, ts |-> out.ts, suffix |-> "_fixed.mp4"]

\* the empty string returned as output path
NoPath == [name |-> "", ts |-> -1, suffix |-> ""]

\* download() has not returned: no tuple yet (every tuple has a message)
NoRet == [success |-> FALSE, path |-> NoPath, message |-> ""]

\* the tuple download() returns once _download_with_resume returned ok and
\* _fix_mp4 ended as fx ("ok", "failed": it returned False, "raised": it
\* let an exception through to the handler of download())
ReturnTuple(ok, u, out, fx) ==
    IF ~ok
    THEN [success |-> FALSE, path |-> NoPath, message |-> "Download failed"]
    ELSE IF DetectFileType(u) = "video"
    THEN IF fx = "ok"
         THEN [success |-> TRUE, path |-> FixedFile(out),
               message |-> "Download and optimization complete"]
         ELSE IF fx = "failed"
         THEN [success |-> TRUE, path |-> out,
               message |-> "Download complete (optimization failed)"]
         ELSE [success |-> FALSE, path |-> NoPath, message |-> "Download error"]
    ELSE [success |-> TRUE, path |-> out, message |-> "Download complete"]

\* outcomes of _fix_mp4 for a file of that type (it runs on video only)
FixOutcomes(t) == IF t = "video" THEN {"ok", "failed", "raised"} ELSE {"none"}

NoHeaders == [n \in {} |-> <<>>]

NoResp == [status |-> 0, headers |-> NoHeaders]

NoReq == [start |-> -1, end |-> -1]

(* ------------------------------ server -------------------------------- *)

BytesPrefix == <<"b", "y", "t", "e", "s", " ">>

\* Content-Range of the answer to "Range: bytes=0-" for a resource of n bytes
ContentRangeText(n) ==
    IF n = 0 THEN BytesPrefix \o <<"*", "/", "0">>
    ELSE BytesPrefix \o <<"0", "-">> \o FormatInt(n - 1) \o <<"/">> \o FormatInt(n)

\* Content-Range of a server that does not tell the total
ContentRangeUnknown(n) ==
    BytesPrefix \o <<"0", "-">> \o FormatInt(Max(n, 1) - 1) \o <<"/", "*">>

ProbeHeaderSets(n) ==
    { ("Content-Range" :> ContentRangeText(n)) @@ ("Content-Length" :> FormatInt(n)),
      ("Content-Range" :> ContentRangeText(n)),
      ("Content-Length" :> FormatInt(n)),
      ("Content-Range" :> ContentRangeUnknown(n)) @@ ("Content-Length" :> FormatInt(n)),
      NoHeaders }

ProbeResponses(n) ==
    [status : {200, 206}, headers : ProbeHeaderSets(n)]
    \cup [status : {403, 404}, headers : {("Content-Length" :> FormatInt(n)), NoHeaders}]

\* statuses the server may give a ranged request
RangeStatuses == {200, 206, 403, 404, 500}

\* body lengths the server may send for the range [s, e]: the range itself,
\* one byte less, or the whole resource (the Range header ignored)
BodyLens(s, e) == {e - s + 1, Max(e - s, 0), srvTotal}

(* ------------------------------ Init ---------------------------------- *)

InitOf(totals, hfiles, cfiles, sinks) ==
    /\ pc = "start"
    /\ sink \in sinks
    /\ srvTotal \in totals
    /\ chunk_size \in 1..MaxChunk
    /\ no_auth \in BOOLEAN
    /\ headers_file \in hfiles
    /\ cookies_file \in cfiles
    /\ headers = PrepareMapping(no_auth, DEFAULT_HEADERS, headers_file,
                                MinimalHeaders)
    /\ cookies = PrepareMapping(no_auth, DEFAULT_COOKIES, cookies_file, {})
    /\ defHeaders = TableAfter(no_auth, DEFAULT_HEADERS, headers_file)
    /\ defCookies = TableAfter(no_auth, DEFAULT_COOKIES, cookies_file)
    /\ url \in URLs
    /\ clock = 0
    /\ output = GenerateOutputFilename(url, clock)
    /\ calls = 1
    /\ stale = -1
    /\ ret = NoRet
    /\ fix = "none"
    /\ initLen \in 0..(MaxTotal + 1)
    /\ file = Bytes(initLen, "old")
    /\ mode = ""
    /\ isOpen = FALSE
    /\ resp = NoResp
    /\ size = -1
    /\ downloaded = 0
    /\ req = NoReq
    /\ last = "none"
    /\ reqs = <<>>
    /\ accepted = <<>>
    /\ events = <<>>
    /\ n403 = 0
    /\ fallbacks = 0
    /\ result = "none"
    /\ gq = <<>>
    /\ wk = <<>>
    /\ wok = <<>>
    /\ puts = <<>>
    /\ gpc = "idle"
    /\ pending = 0
    /\ bar = 0
    /\ label = "Ready"
    /\ logn = 0
    /\ button = "normal"
    /\ stage = "download"
    /\ results = <<>>
    /\ ran = <<>>
    /\ completed = <<>>
    /\ success = "none"
    /\ queues = <<>>
    /\ progress_queue = 0
    /\ workers = <<>>
    /\ bound = <<>>
    /\ tabOf = <<>>
    /\ buttons = [t \in {"download", "transcribe"} |-> "normal"]
    /\ polls = [t \in {"download", "transcribe"} |-> 0]
    /\ gui = [at |-> "idle", tab |-> "download"]
    /\ shown = {}
    /\ whisper = [size |-> "", device |-> ""]
    /\ current_model_size = ""
    /\ current_device = ""
    /\ lastCall = [size |-> "", device |-> "", cuda |-> FALSE, how |-> "none"]
    /\ lines = <<>>
    /\ max_tokens = 1
    /\ overlap = 0
    /\ chunks = <<>>
    /\ current_chunk = <<>>
    /\ current_length = 0
    /\ lineNo = -1

\* every resource length, download() called without override files, a
\* progress_callback attached
Init == InitOf(0..MaxTotal, {NoFile}, {NoFile}, {TRUE})

(* ------------------------- _get_file_size ----------------------------- *)

\* requests.get(url, headers=range_headers with "Range: bytes=0-", ...)
SendProbe ==
    /\ pc = "start"
    /\ reqs' = Append(reqs, [hdrs |-> RangeHeaders(headers), cookies |-> cookies,
                           range |-> <<0>>])
    /\ pc' = "probing"
    /\ UNCHANGED callVars
    /\ UNCHANGED <<srvTotal, chunk_size, headers, initLen, file, mode, isOpen,
                   resp, size, downloaded, req, last, accepted, events, n403,
                   fallbacks, result>>

\* the probe's response arrives
ProbeArrives ==
    /\ pc = "probing"
    /\ \E r \in ProbeResponses(srvTotal) : resp' = r
    /\ pc' = "probed"
    /\ UNCHANGED callVars
    /\ UNCHANGED <<srvTotal, chunk_size, headers, initLen, file, mode, isOpen,
                   size, downloaded, req, last, reqs, accepted, events, n403,
                   fallbacks, result>>

\* the rest of _get_file_size: return the size, or raise into the handler
\* of _download_with_resume, which enters _download_fallback
ProbeReturn ==
    /\ pc = "probed"
    /\ LET s == GetFileSize(resp)
       IN  IF s.ok
           THEN /\ size' = s.size
                /\ pc' = "resume"
                /\ UNCHANGED fallbacks
           ELSE /\ size' = size
                /\ pc' = ExceptTarget
                /\ fallbacks' = IF ExceptTarget = "fallback"
                                THEN fallbacks + 1 ELSE fallbacks
    /\ result' = IF pc' = "done" THEN FALSE ELSE result
    /\ UNCHANGED callVars
    /\ UNCHANGED <<srvTotal, chunk_size, headers, initLen, file, mode, isOpen,
                   resp, downloaded, req, last, reqs, accepted, events, n403>>

\* the probe's GET raises (connection error)
ProbeError ==
    /\ pc = "probing"
    /\ pc' = ExceptTarget
    /\ fallbacks' = IF ExceptTarget = "fallback" THEN fallbacks + 1 ELSE fallbacks
    /\ result' = IF ExceptTarget = "fallback" THEN result ELSE FALSE
    /\ UNCHANGED callVars
    /\ UNCHANGED <<srvTotal, chunk_size, headers, initLen, file, mode, isOpen,
                   resp, size, downloaded, req, last, reqs, accepted, events,
                   n403>>

(* ---------------------- _download_with_resume ------------------------- *)

\* downloaded = size of the existing file; open(output, mode)
OpenFile ==
    /\ pc = "resume"
    /\ downloaded' = ResumeOffset(file)
    /\ mode' = OpenMode(downloaded')
    /\ isOpen' = TRUE
    /\ file' = IF mode' = "wb" THEN <<>> ELSE file
    /\ resp' = NoResp
    /\ pc' = "loop"
    /\ UNCHANGED callVars
    /\ UNCHANGED <<srvTotal, chunk_size, headers, initLen, size, req, last,
                   reqs, accepted, events, n403, fallbacks, result>>

\* one more iteration: compute the range and send the ranged GET
SendRange ==
    /\ pc = "loop"
    /\ LoopContinues(downloaded, size)
    /\ LET r == [start |-> downloaded,
                 end |-> ChunkEnd(downloaded, chunk_size, size)]
       IN  /\ req' = r
           /\ reqs' = IF last = "forbidden" /\ r = req
                      THEN reqs
                      ELSE Append(reqs, [hdrs |-> RangeHeaders(headers),
                                         cookies |-> cookies,
                                         range |-> <<r.start, r.end>>])
    /\ pc' = "requested"
    /\ UNCHANGED callVars
    /\ UNCHANGED <<srvTotal, chunk_size, headers, initLen, file, mode, isOpen,
                   resp, size, downloaded, last, accepted, events, n403,
                   fallbacks, result>>

\* the loop condition is false: close the file and return True
LoopExit ==
    /\ pc = "loop"
    /\ ~LoopContinues(downloaded, size)
    /\ isOpen' = OpenAfterWith
    /\ result' = ExitResult(sink)
    /\ pc' = "done"
    /\ UNCHANGED callVars
    /\ UNCHANGED <<srvTotal, chunk_size, headers, initLen, file, mode, resp,
                   size, downloaded, req, last, reqs, accepted, events, n403,
                   fallbacks>>

\* status 200 or 206: write the whole body, advance, report progress
AnswerOK ==
    /\ pc = "requested"
    /\ \E st \in RangeStatuses, n \in BodyLens(req.start, req.end) :
          /\ StatusBranch(st) = "accept"
          /\ file' = file \o Bytes(n, "new")
    /\ downloaded' = NextDownloaded(req.end)
    /\ events' = Append(events, [stage |-> "download",
                                 current |-> downloaded', total |-> size])
    /\ accepted' = Append(accepted, req)
    /\ last' = "accepted"
    /\ pc' = ProgressTarget(sink)
    /\ UNCHANGED callVars
    /\ UNCHANGED <<srvTotal, chunk_size, headers, initLen, mode, isOpen, resp,
                   size, req, reqs, n403, fallbacks, result>>

\* status 403: log a warning and continue
Answer403 ==
    /\ pc = "requested"
    /\ \E st \in RangeStatuses : StatusBranch(st) = "retry"
    /\ last' = "forbidden"
    /\ n403' = Min(n403 + 1, Max403)
    /\ pc' = RetryTarget
    /\ isOpen' = (RetryTarget = "loop")
    /\ fallbacks' = IF RetryTarget = "fallback" THEN fallbacks + 1 ELSE fallbacks
    /\ UNCHANGED callVars
    /\ UNCHANGED <<srvTotal, chunk_size, headers, initLen, file, mode, resp,
                   size, downloaded, req, reqs, accepted, events, result>>

\* any other status: return False (the with block closes the file)
AnswerBad ==
    /\ pc = "requested"
    /\ \E st \in RangeStatuses : StatusBranch(st) = "fail"
    /\ last' = "failed"
    /\ isOpen' = OpenAfterWith
    /\ pc' = FailTarget
    /\ result' = IF FailTarget = "done" THEN FALSE ELSE result
    /\ fallbacks' = IF FailTarget = "fallback" THEN fallbacks + 1 ELSE fallbacks
    /\ UNCHANGED callVars
    /\ UNCHANGED <<srvTotal, chunk_size, headers, initLen, file, mode, resp,
                   size, downloaded, req, reqs, accepted, events, n403>>

\* the ranged GET raises (timeout, connection reset): the with block closes
\* the file and the handler enters _download_fallback
RangeError ==
    /\ pc = "requested"
    /\ last' = "raised"
    /\ isOpen' = OpenAfterWith
    /\ pc' = ExceptTarget
    /\ fallbacks' = IF ExceptTarget = "fallback" THEN fallbacks + 1 ELSE fallbacks
    /\ result' = IF ExceptTarget = "fallback" THEN result ELSE FALSE
    /\ UNCHANGED callVars
    /\ UNCHANGED <<srvTotal, chunk_size, headers, initLen, file, mode, resp,
                   size, downloaded, req, reqs, accepted, events, n403>>

\* status 200 or 206, but the body breaks off while it is streamed: the
\* bytes read so far are written, then iter_content raises
StreamError ==
    /\ pc = "requested"
    /\ \E st \in RangeStatuses, n \in 0..1 :
          /\ StatusBranch(st) = "accept"
          /\ n < req.end - req.start + 1
          /\ file' = file \o Bytes(n, "new")
    /\ last' = "raised"
    /\ isOpen' = OpenAfterWith
    /\ pc' = ExceptTarget
    /\ fallbacks' = IF ExceptTarget = "fallback" THEN fallbacks + 1 ELSE fallbacks
    /\ result' = IF ExceptTarget = "fallback" THEN result ELSE FALSE
    /\ UNCHANGED callVars
    /\ UNCHANGED <<srvTotal, chunk_size, headers, initLen, mode, resp, size,
                   downloaded, req, reqs, accepted, events, n403>>

(* ------------------------ _download_fallback -------------------------- *)

\* requests.get(url, headers=headers, cookies=cookies, ...)
SendFallback ==
    /\ pc = "fallback"
    /\ reqs' = Append(reqs, [hdrs |-> FallbackHeaders(headers),
                           cookies |-> cookies, range |-> <<>>])
    /\ resp' = NoResp
    /\ pc' = "fallbackreq"
    /\ UNCHANGED callVars
    /\ UNCHANGED <<srvTotal, chunk_size, headers, initLen, file, mode, isOpen,
                   size, downloaded, req, last, accepted, events, n403,
                   fallbacks, result>>

\* statuses the server may give the fallback GET, and the body it sends
FallbackStatuses == {200, 404}

FallbackBodyLen(st) == IF st = 200 THEN srvTotal ELSE ErrPageLen

\* any response: open(output, "wb"), write the body, return True
FallbackAnswer ==
    /\ pc = "fallbackreq"
    /\ \E st \in FallbackStatuses :
          /\ resp' = [status |-> st, headers |-> NoHeaders]
          /\ file' = (IF FallbackMode = "wb" THEN <<>> ELSE file)
                     \o Bytes(FallbackBodyLen(st), "fallback")
    /\ mode' = FallbackMode
    /\ isOpen' = FALSE
    /\ result' = TRUE
    /\ pc' = "done"
    /\ UNCHANGED callVars
    /\ UNCHANGED <<srvTotal, chunk_size, headers, initLen, size,
                   downloaded, req, last, reqs, accepted, events, n403,
                   fallbacks>>

\* the response arrives but its body breaks off while it is streamed: the
\* file was opened with "wb" and holds what was read so far; return False
FallbackStreamError ==
    /\ pc = "fallbackreq"
    /\ \E st \in FallbackStatuses, n \in 0..1 :
          /\ n < FallbackBodyLen(st)
          /\ resp' = [status |-> st, headers |-> NoHeaders]
          /\ file' = (IF FallbackMode = "wb" THEN <<>> ELSE file)
                     \o Bytes(n, "fallback")
    /\ mode' = FallbackMode
    /\ isOpen' = FALSE
    /\ result' = FALSE
    /\ pc' = "done"
    /\ UNCHANGED callVars
    /\ UNCHANGED <<srvTotal, chunk_size, headers, initLen, size,
                   downloaded, req, last, reqs, accepted, events, n403,
                   fallbacks>>

\* the fallback GET raises: return False
FallbackError ==
    /\ pc = "fallbackreq"
    /\ result' = FALSE
    /\ pc' = "done"
    /\ UNCHANGED callVars
    /\ UNCHANGED <<srvTotal, chunk_size, headers, initLen, file, mode, isOpen,
                   resp, size, downloaded, req, last, reqs, accepted, events,
                   n403, fallbacks>>

(* ------------------------------ download ------------------------------ *)

\* something before _download_with_resume raises (os.makedirs, opening or
\* parsing an override file): the handler of download() returns the error
SetupError ==
    /\ pc = "start"
    /\ pc' = "aborted"
    /\ ret' = [success |-> FALSE, path |-> NoPath, message |-> "Download error"]
    /\ UNCHANGED <<url, cookies, clock, output, calls, stale, fix, no_auth,
                   headers_file, cookies_file, defHeaders, defCookies, sink,
                   hostVars>>
    /\ UNCHANGED <<srvTotal, chunk_size, headers, initLen, file, mode, isOpen,
                   resp, size, downloaded, req, last, reqs, accepted, events,
                   n403, fallbacks, result>>

\* _download_with_resume returned: post-process a video, return the tuple
DownloadReturn ==
    /\ pc = "done"
    /\ ret = NoRet
    /\ \E fx \in (IF result = TRUE THEN FixOutcomes(DetectFileType(url))
                                    ELSE {"none"}) :
          /\ fix' = fx
          /\ ret' = ReturnTuple(result, url, output, fx)
    /\ UNCHANGED <<url, cookies, clock, output, calls, stale, no_auth,
                   headers_file, cookies_file, defHeaders, defCookies, sink,
                   hostVars>>
    /\ UNCHANGED <<pc, srvTotal, chunk_size, headers, initLen, file, mode,
                   isOpen, resp, size, downloaded, req, last, reqs, accepted,
                   events, n403, fallbacks, result>>

(* --------------------------- specifications --------------------------- *)

Next ==
    \/ SendProbe
    \/ ProbeArrives
    \/ ProbeReturn
    \/ ProbeError
    \/ OpenFile
    \/ SendRange
    \/ LoopExit
    \/ AnswerOK
    \/ Answer403
    \/ AnswerBad
    \/ RangeError
    \/ StreamError
    \/ SendFallback
    \/ FallbackAnswer
    \/ FallbackError
    \/ FallbackStreamError
    \/ SetupError
    \/ DownloadReturn

Spec == Init /\ [][Next]_vars


\* the server answers every ranged request with 200, 206 or 403, and answers
\* 200 or 206 in the end; the downloader's own steps are always taken
NextFair ==
    \/ SendProbe
    \/ ProbeArrives
    \/ ProbeReturn
    \/ OpenFile
    \/ SendRange
    \/ LoopExit
    \/ AnswerOK
    \/ Answer403
    \/ SendFallback
    \/ FallbackAnswer

LiveSpec ==
    /\ Init
    /\ [][NextFair]_vars
    /\ WF_vars(SendProbe \/ ProbeReturn \/ OpenFile \/ SendRange \/ LoopExit
               \/ SendFallback)
    /\ WF_vars(ProbeArrives \/ FallbackAnswer)
    /\ SF_vars(AnswerOK)

\* the server answers every ranged request with 403
Next403 ==
    \/ SendProbe
    \/ ProbeArrives
    \/ ProbeReturn
    \/ OpenFile
    \/ SendRange
    \/ LoopExit
    \/ Answer403
    \/ SendFallback
    \/ FallbackAnswer

Spec403 == Init /\ [][Next403]_vars /\ WF_vars(Next403)

(* ------------------------------ readings ------------------------------ *)

RangedReqs == SelectSeq(reqs, LAMBDA r : Len(r.range) = 2)

ProbeReqs == SelectSeq(reqs, LAMBDA r : r.range = <<0>>)

PrefixIntact ==
    /\ Len(file) >= initLen
    /\ \A i \in 1..initLen : file[i] = "old"

\* the chunk loop ran to its end and the run returned True
ChunkLoopSuccess == pc = "done" /\ result = TRUE /\ fallbacks = 0

RECURSIVE SumLens(_)
SumLens(rs) ==
    IF rs = <<>> THEN 0
    ELSE (rs[1].end - rs[1].start + 1) + SumLens(Tail(rs))

\* accepted ranges that hold byte offset b
Holders(b) == {i \in 1..Len(accepted) : accepted[i].start <= b /\ b <= accepted[i].end}

\* no overlap, no gap over [initLen, size), nothing outside it
TilesRemainder ==
    /\ \A b \in initLen..(size - 1) : Cardinality(Holders(b)) = 1
    /\ \A i \in 1..Len(accepted) :
          /\ initLen <= accepted[i].start
          /\ accepted[i].start <= accepted[i].end
          /\ accepted[i].end <= size - 1

(* ------------------------------- claims ------------------------------- *)

\* C1 (as stated): a destination that holds k bytes, 0 < k < total, is opened
\* for append, the first ranged request starts at k, and bytes [0, k) are
\* never rewritten or discarded, whatever the server does.
C1_PrefixNeverLost ==
    (size # -1 /\ 0 < initLen /\ initLen < size) =>
        /\ (mode # "" => mode = "ab")
        /\ (RangedReqs # <<>> => RangedReqs[1].range[1] = initLen)
        /\ PrefixIntact

\* C1 (amended): the same, for as long as the run has not entered the
\* fallback path; in the chunk loop the handle is an append handle.
C1_PrefixKeptInChunkLoop ==
    (size # -1 /\ 0 < initLen /\ initLen < size /\ fallbacks = 0) =>
        /\ (pc \in {"loop", "requested"} => mode = "ab" /\ isOpen)
        /\ (mode # "" => mode = "ab")
        /\ (RangedReqs # <<>> => RangedReqs[1].range[1] = initLen)
        /\ PrefixIntact

C1_Witness ==
    /\ ChunkLoopSuccess
    /\ 0 < initLen /\ initLen < size
    /\ n403 > 0
    /\ Len(file) > initLen

C3_RangeWellFormed ==
    /\ pc = "requested" =>
          /\ req.start = downloaded
          /\ req.end = Min(downloaded + chunk_size - 1, size - 1)
          /\ req.start <= req.end
          /\ req.end < size
          /\ RangedReqs[Len(RangedReqs)].range = <<req.start, req.end>>
          /\ (accepted # <<>> => req.start = accepted[Len(accepted)].end + 1)
    /\ \A i \in 1..Len(RangedReqs) :
          /\ RangedReqs[i].range[1] <= RangedReqs[i].range[2]
          /\ RangedReqs[i].range[2] < size

C3_Witness ==
    /\ pc = "requested"
    /\ Len(accepted) >= 1
    /\ req.end = size - 1
    /\ req.end - req.start + 1 < chunk_size

\* C4: a 403 answer leaves downloaded, the file and the progress events
\* unchanged and the loop running; the request sent after it carries the
\* same range; a 200 or 206 answer to that range completes the chunk with
\* downloaded = end + 1.
C4_RetrySameRange ==
    [][ /\ (pc = "requested" /\ last' = "forbidden") =>
              /\ pc' = "loop"
              /\ downloaded' = downloaded
              /\ file' = file
              /\ events' = events
              /\ accepted' = accepted
              /\ result' = "none"
        /\ (pc = "loop" /\ last = "forbidden" /\ pc' # "loop") =>
              /\ pc' = "requested"
              /\ req' = req
              /\ reqs' = reqs
        /\ (pc = "requested" /\ last = "forbidden" /\ last' = "accepted") =>
              /\ downloaded' = req.end + 1
              /\ accepted' = Append(accepted, req)
              /\ Len(events') = Len(events) + 1
      ]_vars

C4_Witness ==
    /\ pc = "loop"
    /\ last = "accepted"
    /\ n403 = Max403
    /\ Len(accepted) = 1
    /\ downloaded = req.end + 1

\* C5: once the probe has returned the size, under a server that answers
\* ranged requests with 403 only finitely often before a 200 or 206, the
\* loop ends with downloaded >= total and the run returns True.
C5_EventuallySucceeds ==
    (pc = "resume") ~>
        (pc = "done" /\ result = TRUE /\ downloaded >= size /\ fallbacks = 0)

C5_Witness ==
    /\ ChunkLoopSuccess
    /\ n403 = Max403
    /\ Len(accepted) >= 2
    /\ downloaded >= size

\* what a run looks like while its first range is being retried
Retrying403 ==
    /\ pc \in {"loop", "requested"}
    /\ result = "none"
    /\ fallbacks = 0
    /\ downloaded = initLen
    /\ accepted = <<>>
    /\ events = <<>>
    /\ req = [start |-> initLen, end |-> Min(initLen + chunk_size - 1, size - 1)]
    /\ Len(RangedReqs) = 1

\* C6: against a server that answers every ranged request with 403 the loop
\* requests the same range again and again for ever: downloaded never
\* moves, the fallback is never entered, nothing is returned.
C6_LivelockOn403 ==
    [](pc = "requested" =>
          /\ []Retrying403
          /\ []<>(pc = "requested")
          /\ []<>(pc = "loop" /\ last = "forbidden"))

C6_Witness ==
    /\ pc = "requested"
    /\ last = "forbidden"
    /\ n403 = Max403

\* C7: with only 200/206 answers a run from k < total bytes sends exactly
\* ceil((total - k) / chunk_size) ranged requests, the i-th (from 0) for
\* [k + i*chunk_size, min(k + (i+1)*chunk_size - 1, total - 1)]; total 10 and
\* chunk 4 (MiB) give 3 requests from k = 0 and 2 from k = 4.
C7_RequestCount ==
    /\ (ChunkLoopSuccess /\ n403 = 0 /\ initLen < size) =>
          /\ Len(RangedReqs) = (size - initLen + chunk_size - 1) \div chunk_size
          /\ \A i \in 0..(Len(RangedReqs) - 1) :
                RangedReqs[i + 1].range =
                    <<initLen + i * chunk_size,
                      Min(initLen + (i + 1) * chunk_size - 1, size - 1)>>
          /\ (size = 10 /\ chunk_size = 4 /\ initLen = 0) =>
                [i \in 1..3 |-> RangedReqs[i].range] = <<<<0, 3>>, <<4, 7>>, <<8, 9>>>>
          /\ (size = 10 /\ chunk_size = 4 /\ initLen = 4) =>
                [i \in 1..2 |-> RangedReqs[i].range] = <<<<4, 7>>, <<8, 9>>>>
    /\ ChunkEnd(ResumeOffset(<<>>), 4194304, 10485760) = 4194303
    /\ ChunkEnd(NextDownloaded(4194303), 4194304, 10485760) = 8388607
    /\ ChunkEnd(NextDownloaded(8388607), 4194304, 10485760) = 10485759
    /\ ~LoopContinues(NextDownloaded(10485759), 10485760)

C7_Witness ==
    /\ ChunkLoopSuccess
    /\ n403 = 0
    /\ size = 10 /\ chunk_size = 4 /\ initLen = 4
    /\ Len(RangedReqs) = 2

\* C8: a destination that already holds exactly total bytes gets no ranged
\* request, no write and no progress event, and the run returns True.
C8_CompleteFileNoOp ==
    (size # -1 /\ initLen = size /\ pc \notin {"probed", "resume"}) =>
        /\ pc \in {"loop", "done"}
        /\ Len(reqs) = 1
        /\ RangedReqs = <<>>
        /\ file = Bytes(initLen, "old")
        /\ events = <<>>
        /\ fallbacks = 0
        /\ (pc = "done" => result = TRUE)

C8_Witness ==
    /\ pc = "done"
    /\ result = TRUE
    /\ size > 0
    /\ initLen = size
    /\ Len(reqs) = 1

\* C9: on status 200 or 206 the probe returns the number after the final
\* "/" of Content-Range when that header is there, else the Content-Length
\* value; a response that has only Content-Length N and one that has
\* Content-Range "bytes s-e/N" give the same total N.
C9_ProbeTotal ==
    /\ pc = "resume" =>
          /\ resp.status \in {200, 206}
          /\ "Content-Range" \in DOMAIN resp.headers =>
                resp.headers["Content-Range"] = ContentRangeText(size)
          /\ "Content-Range" \notin DOMAIN resp.headers =>
                /\ "Content-Length" \in DOMAIN resp.headers
                /\ resp.headers["Content-Length"] = FormatInt(size)
          /\ size = srvTotal
    /\ (pc = "fallback" /\ resp.status \in {200, 206}) =>
          \/ DOMAIN resp.headers = {}
          \/ /\ "Content-Range" \in DOMAIN resp.headers
             /\ resp.headers["Content-Range"] = ContentRangeUnknown(srvTotal)

C9_Witness ==
    /\ pc = "resume"
    /\ DOMAIN resp.headers = {"Content-Length"}
    /\ size = 10

\* C10: when the probe fails it is not retried, no ranged request is sent,
\* and the fallback runs exactly once, as one GET without a Range header.
C10_ProbeFailureFallsBackOnce ==
    (size = -1 /\ pc \in {"fallback", "fallbackreq", "done"}) =>
        /\ Len(ProbeReqs) = 1
        /\ RangedReqs = <<>>
        /\ fallbacks = 1
        /\ (pc = "fallback" => Len(reqs) = 1)
        /\ (pc \in {"fallbackreq", "done"} =>
               /\ Len(reqs) = 2
               /\ reqs[2].range = <<>>
               /\ "Range" \notin reqs[2].hdrs)

C10_Witness ==
    /\ pc = "done"
    /\ size = -1
    /\ result = TRUE
    /\ Len(reqs) = 2
    /\ file = Bytes(srvTotal, "fallback")

\* download() has returned its tuple
Returned == ret.message # ""

\* C11: a ranged request answered with a status other than 200, 206 and 403
\* stops the loop at once: no request follows, the fallback is not entered,
\* the bytes on disk stay as they are, and the caller is told of the failure.
C11_BadStatusStops ==
    [][ /\ (pc = "requested" /\ last' = "failed") =>
              /\ pc' = "done"
              /\ result' = FALSE
              /\ ~isOpen'
              /\ file' = file
              /\ reqs' = reqs
              /\ fallbacks' = 0
        /\ last = "failed" =>
              /\ pc' = "done"
              /\ result' = FALSE
              /\ file' = file
              /\ reqs' = reqs
              /\ fallbacks' = 0
              /\ (Returned' =>
                    ret' = [success |-> FALSE, path |-> NoPath,
                            message |-> "Download failed"])
      ]_vars

C11_Witness ==
    /\ last = "failed"
    /\ ret.message = "Download failed"
    /\ Len(accepted) >= 1
    /\ Len(file) > initLen
    /\ initLen > 0

\* requests sent without a Range header
PlainReqs == SelectSeq(reqs, LAMBDA r : r.range = <<>>)

\* an exception was raised inside _download_with_resume, before the fallback
RaisedInResume ==
    \/ last = "raised"
    \/ size = -1 /\ pc \in {"fallback", "fallbackreq", "done"}

\* the fallback ran and returned False
FallbackFailed == pc = "done" /\ fallbacks = 1 /\ result = FALSE

\* what holds of every exception, wherever it was raised
ExceptionContained ==
    /\ (pc \in {"done", "aborted"} /\ ~Returned) => ENABLED DownloadReturn
    /\ (Returned /\ ~ret.success) => ret.path = NoPath
    /\ FallbackFailed =>
          /\ Len(PlainReqs) = 1
          /\ reqs[Len(reqs)].range = <<>>
          /\ (Returned =>
                ret = [success |-> FALSE, path |-> NoPath,
                       message |-> "Download failed"])

\* C12 (as stated): no exception escapes download(), every exception raised
\* during a download leads to the fallback attempt, a failed fallback is
\* followed by no request and by (False, "", message), and success = False
\* implies output_path = "".
C12_EveryExceptionFallsBack ==
    /\ ExceptionContained
    /\ (RaisedInResume \/ pc = "aborted" \/ ret.message = "Download error") =>
          fallbacks = 1

\* C12 (amended): an exception raised inside _download_with_resume leads to
\* the fallback attempt; one raised in download() outside it is turned into
\* (False, "", message) with no fallback and no request of its own.
C12_ExceptionsHandled ==
    /\ ExceptionContained
    /\ RaisedInResume => fallbacks = 1
    /\ pc = "aborted" =>
          /\ fallbacks = 0
          /\ reqs = <<>>
          /\ ret = [success |-> FALSE, path |-> NoPath, message |-> "Download error"]
    /\ ret.message = "Download error" => ~ret.success /\ ret.path = NoPath

C12_Witness ==
    /\ FallbackFailed
    /\ last = "raised"
    /\ Len(accepted) >= 1
    /\ ret.message = "Download failed"

\* the fallback ran and returned True
FallbackSucceeded == pc = "done" /\ fallbacks = 1 /\ result = TRUE

\* C13: the fallback sends exactly one GET without Range, with the caller's
\* headers and cookies, truncates the destination and writes the whole body
\* in one pass: after it succeeded the file is that body and nothing else.
C13_FallbackReplacesFile ==
    /\ (fallbacks = 1 /\ pc \in {"fallbackreq", "done"}) =>
          /\ Len(PlainReqs) = 1
          /\ PlainReqs[1] = reqs[Len(reqs)]
          /\ PlainReqs[1].hdrs = headers
          /\ PlainReqs[1].cookies = cookies
    /\ FallbackSucceeded =>
          /\ mode = "wb"
          /\ ~isOpen
          /\ \A i \in 1..Len(file) : file[i] = "fallback"
          /\ Len(file) \in {FallbackBodyLen(st) : st \in FallbackStatuses}

C13_Witness ==
    /\ FallbackSucceeded
    /\ Len(accepted) >= 1
    /\ initLen > 0
    /\ file = Bytes(srvTotal, "fallback")

\* C14 (as stated): from the probe through the chunk loop and any fallback
\* handoff, no step leaves fewer bytes in the destination than it found.
C14_NeverShrinks == [][Len(file') >= Len(file)]_vars

\* C14 (amended): the same for every step but the fallback's write, which
\* opens the destination with "wb" and may leave fewer bytes.
C14_NeverShrinksInChunkLoop ==
    [][pc # "fallbackreq" => Len(file') >= Len(file)]_vars

C14_Witness ==
    /\ pc = "fallbackreq"
    /\ initLen > 0
    /\ Len(accepted) >= 2
    /\ Len(file) > initLen

\* C15, for a destination that starts no longer than total: once the probe
\* has returned total, the destination never holds more than total bytes,
\* whatever body lengths the server sends.
C15_DiskWithinTotal ==
    (size # -1 /\ initLen <= size) => Len(file) <= size

\* what the latest ProgressEvent reported, or the resume size if none
LastReported == IF events = <<>> THEN initLen ELSE events[Len(events)].current

\* C16: every accepted chunk is on disk before the next range is requested,
\* so at any point of a download whose probe succeeded the file's size is
\* the value of downloaded carried by the latest ProgressEvent (or the
\* resume size if none was emitted).
C16_FileMatchesLastEvent ==
    size # -1 => Len(file) = LastReported


(* ------------------- download() called a second time ------------------- *)

\* download() calls a behaviour may make
MaxCalls == 2

\* seconds that may pass between two calls (0: within the same second)
Pauses == {0, 1}

\* The process is stopped inside the chunk loop after it wrote bytes, and
\* download() is called again with the same url and output_dir: _generate_output_filename builds
\* the path from the url's name and datetime.now() to the second, and
\* _download_with_resume starts from whatever file is under that path.
Restart ==
    /\ pc \in {"loop", "requested"}
    /\ Len(file) > initLen
    /\ calls < MaxCalls
    /\ calls' = calls + 1
    /\ stale' = Len(file)
    /\ \E dt \in Pauses :
          /\ clock' = clock + dt
          /\ output' = GenerateOutputFilename(url, clock + dt)
          /\ file' = IF GenerateOutputFilename(url, clock + dt) = output
                        THEN Bytes(Len(file), "old")
                        ELSE <<>>
          /\ initLen' = IF GenerateOutputFilename(url, clock + dt) = output
                           THEN Len(file)
                           ELSE 0
    /\ pc' = "start"
    /\ mode' = ""
    /\ isOpen' = FALSE
    /\ resp' = NoResp
    /\ size' = -1
    /\ downloaded' = 0
    /\ req' = NoReq
    /\ last' = "none"
    /\ reqs' = <<>>
    /\ accepted' = <<>>
    /\ events' = <<>>
    /\ n403' = 0
    /\ fallbacks' = 0
    /\ result' = "none"
    /\ ret' = NoRet
    /\ fix' = "none"
    /\ UNCHANGED <<srvTotal, chunk_size, headers, url, cookies, no_auth,
                   headers_file, cookies_file, defHeaders, defCookies, sink,
                   hostVars>>

\* a server that answers every request with 200 or 206, and a caller that
\* stops the process and calls download() again
NextRestart ==
    \/ SendProbe
    \/ ProbeArrives
    \/ ProbeReturn
    \/ OpenFile
    \/ SendRange
    \/ LoopExit
    \/ AnswerOK
    \/ DownloadReturn
    \/ Restart

\* the first call finds no file under its path
InitRestart == Init /\ initLen = 0

SpecRestart == InitRestart /\ [][NextRestart]_vars

\* C17: when a download() call is interrupted after k bytes were written
\* and download() is called again with the same url and directory, the
\* second call finds those k bytes as its resume state and its first ranged
\* request starts at byte k.
C17_RestartResumes ==
    calls > 1 =>
        /\ initLen = stale
        /\ (mode # "" /\ accepted = <<>>) => downloaded = stale


(* ---------------------------- ProgressEvents --------------------------- *)

\* one event per accepted range, in order, each carrying end + 1 and the total
EventsMatchAccepted ==
    /\ Len(events) = Len(accepted)
    /\ \A i \in 1..Len(events) :
          events[i] = [stage |-> "download",
                       current |-> accepted[i].end + 1,
                       total |-> size]

\* the values of current grow strictly
EventsIncrease ==
    \A i \in 1..Len(events), j \in 1..Len(events) :
        i < j => events[i].current < events[j].current

\* an event is emitted in the step that wrote the chunk's body, and the next
\* range is requested only afterwards
EmittedWithTheChunk ==
    events' # events =>
        /\ pc = "requested" /\ pc' = "loop"
        /\ events' = Append(events, [stage |-> "download",
                                     current |-> req.end + 1, total |-> size])
        /\ accepted' = Append(accepted, req)
        /\ Len(file') >= Len(file)
        /\ reqs' = reqs

\* C18 (as stated): one 'download' event per accepted chunk with
\* current = end + 1 and total = total, emitted with the chunk's write and
\* before the next request; current grows strictly and, on success, the
\* last value of current equals total.
C18_EventsReachTotalOnSuccess ==
    /\ EventsMatchAccepted
    /\ EventsIncrease
    /\ (pc = "done" /\ result = TRUE /\ events # <<>>) =>
           events[Len(events)].current = size

\* C18 (amended): the same, with the last value of current equal to total
\* when the chunk loop itself ends in success after requesting a range; a
\* success returned by the fallback emits no event of its own.
C18_EventsPerChunk ==
    /\ [](/\ EventsMatchAccepted
          /\ EventsIncrease
          /\ (ChunkLoopSuccess /\ initLen < size) =>
                 (events # <<>> /\ events[Len(events)].current = size))
    /\ [][EmittedWithTheChunk]_vars

C18_Witness ==
    /\ ChunkLoopSuccess
    /\ Len(events) >= 3
    /\ initLen > 0
    /\ events[Len(events)].current = size


(* ------------------ I/O errors on the destination file ----------------- *)

\* open(output, mode) raises (permission denied): the handler of
\* _download_with_resume enters _download_fallback
OpenError ==
    /\ pc = "resume"
    /\ downloaded' = ResumeOffset(file)
    /\ last' = "ioerror"
    /\ isOpen' = FALSE
    /\ pc' = ExceptTarget
    /\ fallbacks' = IF ExceptTarget = "fallback" THEN fallbacks + 1 ELSE fallbacks
    /\ result' = IF ExceptTarget = "fallback" THEN result ELSE FALSE
    /\ UNCHANGED callVars
    /\ UNCHANGED <<srvTotal, chunk_size, headers, initLen, file, mode, resp,
                   size, req, reqs, accepted, events, n403>>

\* status 200 or 206, but f.write raises (disk full) after some bytes of the
\* body reached the file: the with block closes the file and the handler
\* enters _download_fallback
WriteError ==
    /\ pc = "requested"
    /\ \E st \in RangeStatuses, n \in 0..1 :
          /\ StatusBranch(st) = "accept"
          /\ n < Max(req.end - req.start + 1, srvTotal)
          /\ file' = file \o Bytes(n, "new")
    /\ last' = "ioerror"
    /\ isOpen' = FALSE
    /\ pc' = ExceptTarget
    /\ fallbacks' = IF ExceptTarget = "fallback" THEN fallbacks + 1 ELSE fallbacks
    /\ result' = IF ExceptTarget = "fallback" THEN result ELSE FALSE
    /\ UNCHANGED callVars
    /\ UNCHANGED <<srvTotal, chunk_size, headers, initLen, mode, resp, size,
                   downloaded, req, reqs, accepted, events, n403>>

\* in _download_fallback open(output, "wb") raises, or it truncates the file
\* and f.write raises: return False
FallbackIOError ==
    /\ pc = "fallbackreq"
    /\ \E opened \in BOOLEAN, n \in 0..1 :
          /\ n < Max(srvTotal, ErrPageLen)
          /\ file' = IF opened
                        THEN (IF FallbackMode = "wb" THEN <<>> ELSE file)
                             \o Bytes(n, "fallback")
                        ELSE file
          /\ mode' = IF opened THEN FallbackMode ELSE mode
    /\ isOpen' = FALSE
    /\ result' = FALSE
    /\ pc' = "done"
    /\ UNCHANGED callVars
    /\ UNCHANGED <<srvTotal, chunk_size, headers, initLen, resp, size,
                   downloaded, req, last, reqs, accepted, events, n403,
                   fallbacks>>

\* a server that answers every request, and a destination that may fail
NextIO ==
    \/ SendProbe
    \/ ProbeArrives
    \/ ProbeReturn
    \/ OpenFile
    \/ OpenError
    \/ SendRange
    \/ LoopExit
    \/ AnswerOK
    \/ WriteError
    \/ SendFallback
    \/ FallbackAnswer
    \/ FallbackIOError
    \/ DownloadReturn

SpecIO == Init /\ [][NextIO]_vars

\* C19: after an I/O error raised while opening the destination or writing
\* a chunk, no further HTTP request is issued and no further write to the
\* destination is attempted.
C19_IOErrorStopsEverything ==
    [][last = "ioerror" => (reqs' = reqs /\ file' = file /\ mode' = mode)]_vars


(* ------------------- timeouts on a ranged request ---------------------- *)

\* the step in which a ranged request ends in an exception (timeout=30)
RangedRequestRaises == pc = "requested" /\ last' = "raised"

\* C20 (as stated): a timeout on a ranged request has the outcome of a
\* non-403 bad status on that request: the loop is left with False, no
\* fallback is entered, and the file loses no byte.
C20_TimeoutLikeBadStatus ==
    [][RangedRequestRaises =>
          /\ pc' = FailTarget
          /\ result' = FALSE
          /\ fallbacks' = fallbacks
          /\ Len(file') >= Len(file)]_vars

\* C20 (amended): a timeout on a ranged request is an exception, handled by
\* entering the fallback: the handle is closed, one unranged GET follows,
\* and the call returns the fallback's result over a destination the
\* fallback has rewritten from its start.
C20_TimeoutEntersFallback ==
    /\ [][RangedRequestRaises =>
             /\ pc' = "fallback"
             /\ fallbacks' = fallbacks + 1
             /\ isOpen' = FALSE
             /\ result' = result
             /\ downloaded' = downloaded]_vars
    /\ []((last = "raised" /\ pc = "done") =>
             /\ fallbacks = 1
             /\ Len(PlainReqs) = 1
             /\ result = TRUE =>
                   (mode = "wb" /\ file = Bytes(Len(file), "fallback")))

C20_Witness ==
    /\ last = "raised"
    /\ pc = "done"
    /\ result = TRUE
    /\ Len(accepted) >= 1
    /\ initLen > 0
    /\ Len(file) < initLen


(* --------------------- network errors in the loop ---------------------- *)

\* C21: a network error raised by a ranged request is not handled inside the
\* chunk loop: the loop is over (its handle closed), no further ranged
\* request is issued, and exactly one fallback attempt follows, with one
\* unranged request once it has been sent.
C21_NetworkErrorLeavesLoop ==
    /\ [][last = "raised" => RangedReqs' = RangedReqs]_vars
    /\ [](last = "raised" =>
            /\ pc \in {"fallback", "fallbackreq", "done"}
            /\ ~isOpen
            /\ fallbacks = 1
            /\ Len(PlainReqs) = (IF pc = "fallback" THEN 0 ELSE 1))

C21_Witness ==
    /\ last = "raised"
    /\ pc = "done"
    /\ Len(RangedReqs) >= 2
    /\ Len(PlainReqs) = 1
    /\ reqs[Len(reqs)].range = <<>>


(* ----------------------- a server that goes silent --------------------- *)

\* the requests that are sent with timeout=30; the probe's GET passes none
TimedRequests == {"range", "fallback"}

\* the probe's GET gives up waiting
ProbeTimesOut == "probe" \in TimedRequests /\ ProbeError

\* a ranged GET gives up waiting
RangeTimesOut == "range" \in TimedRequests /\ RangeError

\* the fallback's GET gives up waiting
FallbackTimesOut == "fallback" \in TimedRequests /\ FallbackError

\* a server that answers 200 or 206, or nothing at all
NextSilent ==
    \/ SendProbe
    \/ ProbeArrives
    \/ ProbeReturn
    \/ ProbeError
    \/ OpenFile
    \/ SendRange
    \/ LoopExit
    \/ AnswerOK
    \/ RangeError
    \/ SendFallback
    \/ FallbackAnswer
    \/ FallbackError
    \/ DownloadReturn

\* the downloader's own steps are always taken and a timeout that was set
\* fires; nothing obliges the server to answer
SpecSilent ==
    /\ Init
    /\ [][NextSilent]_vars
    /\ WF_vars(SendProbe \/ ProbeReturn \/ OpenFile \/ SendRange \/ LoopExit
               \/ SendFallback \/ DownloadReturn)
    /\ WF_vars(ProbeTimesOut)
    /\ WF_vars(RangeTimesOut)
    /\ WF_vars(FallbackTimesOut)

\* C22: every request is bounded by a timeout, so when the server stops
\* answering at any point download() still eventually returns a result.
C22_AlwaysReturns == <>Returned


(* --------------------------- post-processing --------------------------- *)

\* C23: _fix_mp4 runs only after a download that succeeded and whose url is
\* a video; when it fails, download() still returns True with the original
\* output path and the message 'Download complete (optimization failed)'.
C23_FixFailureIsNotFatal ==
    /\ fix # "none" => (result = TRUE /\ DetectFileType(url) = "video")
    /\ fix \in {"failed", "raised"} =>
          ret = [success |-> TRUE, path |-> output,
                 message |-> "Download complete (optimization failed)"]


(* ------------------- headers, cookies and override files --------------- *)

\* length of the resource that is not empty
ProfileTotal == 2

\* download() called with or without override files, for an empty resource
\* and for one that is not, with no file under its path
InitProfile ==
    /\ InitOf({0, ProfileTotal}, HeaderFiles, CookieFiles, {TRUE})
    /\ initLen = 0

\* download() has returned and is called again, with the same url and any
\* no_auth, headers_file and cookies_file: the mappings are built from the
\* module's tables as they stand
CallAgain ==
    /\ pc \in {"done", "aborted"}
    /\ Returned
    /\ calls < MaxCalls
    /\ calls' = calls + 1
    /\ stale' = Len(file)
    /\ \E na \in BOOLEAN, hf \in HeaderFiles, cf \in CookieFiles :
          /\ no_auth' = na
          /\ headers_file' = hf
          /\ cookies_file' = cf
          /\ headers' = PrepareMapping(na, defHeaders, hf, MinimalHeaders)
          /\ cookies' = PrepareMapping(na, defCookies, cf, {})
          /\ defHeaders' = TableAfter(na, defHeaders, hf)
          /\ defCookies' = TableAfter(na, defCookies, cf)
    /\ \E dt \in Pauses :
          /\ clock' = clock + dt
          /\ output' = GenerateOutputFilename(url, clock + dt)
          /\ file' = IF GenerateOutputFilename(url, clock + dt) = output
                        THEN Bytes(Len(file), "old")
                        ELSE <<>>
          /\ initLen' = IF GenerateOutputFilename(url, clock + dt) = output
                           THEN Len(file)
                           ELSE 0
    /\ pc' = "start"
    /\ mode' = ""
    /\ isOpen' = FALSE
    /\ resp' = NoResp
    /\ size' = -1
    /\ downloaded' = 0
    /\ req' = NoReq
    /\ last' = "none"
    /\ reqs' = <<>>
    /\ accepted' = <<>>
    /\ events' = <<>>
    /\ n403' = 0
    /\ fallbacks' = 0
    /\ result' = "none"
    /\ ret' = NoRet
    /\ fix' = "none"
    /\ UNCHANGED <<srvTotal, chunk_size, url, sink, hostVars>>

NextProfile ==
    \/ Next
    \/ CallAgain

SpecProfile == InitProfile /\ [][NextProfile]_vars


\* m holds every entry of the file f and every entry of the table d whose
\* name f does not give, and nothing else
MergedOver(m, d, f) ==
    LET given == {NameOf(x) : x \in f}
    IN  /\ f \subseteq m
        /\ \A e \in d : NameOf(e) \in given \/ e \in m
        /\ \A e \in m : e \in f \/ (e \in d /\ NameOf(e) \notin given)

\* C24: in no_auth mode every request carries only the User-Agent header
\* (plus Range on the probe and the ranged requests) and no cookie, whatever
\* override files are supplied; otherwise its headers and cookies are the
\* built-in defaults with the files' entries merged over them.
C24_ProfileOnEveryRequest ==
    \A i \in 1..Len(reqs) :
        LET h == reqs[i].hdrs \ {"Range"}
            c == reqs[i].cookies
        IN  /\ ("Range" \in reqs[i].hdrs) = (reqs[i].range # <<>>)
            /\ IF no_auth
               THEN h = {"User-Agent"} /\ c = {}
               ELSE /\ MergedOver(h, DEFAULT_HEADERS, headers_file)
                    /\ MergedOver(c, DEFAULT_COOKIES, cookies_file)

C24_Witness ==
    /\ no_auth
    /\ headers_file # NoFile
    /\ cookies_file # NoFile
    /\ Len(RangedReqs) >= 2
    /\ Len(PlainReqs) = 1

\* C25: no step of the probe, the chunk loop or the fallback changes the
\* caller's header and cookie mappings (Range goes into a copy), and no
\* sequence of download() calls with override files changes the module's
\* default header and cookie tables.
C25_MappingsAreNotMutated ==
    /\ [](/\ defHeaders = DEFAULT_HEADERS
          /\ defCookies = DEFAULT_COOKIES
          /\ "Range" \notin headers)
    /\ [][calls' = calls => (headers' = headers /\ cookies' = cookies)]_vars

C25_Witness ==
    /\ calls = 2
    /\ ~no_auth
    /\ headers_file # NoFile
    /\ cookies_file # NoFile
    /\ Len(RangedReqs) >= 1
    /\ Len(PlainReqs) = 1
    /\ Returned


(* ------------------- with and without a progress sink ------------------ *)

\* download() run with a progress_callback attached and with none
InitSink == InitOf({0, ProfileTotal}, {NoFile}, {NoFile}, BOOLEAN)

SpecSink == InitSink /\ [][Next]_vars

\* progress reports put on the callback's queue, and those printed
Queued == IF sink THEN events ELSE <<>>

Printed == IF sink THEN <<>> ELSE events

\* the step that accepts a chunk goes on with the loop, whatever the sink
AcceptStepIsSinkBlind ==
    (pc = "requested" /\ accepted' # accepted) =>
        /\ pc' = "loop"
        /\ downloaded' = req.end + 1
        /\ reqs' = reqs
        /\ result' = result
        /\ fallbacks' = fallbacks
        /\ isOpen'

\* the step that leaves the loop returns True, whatever the sink
ExitStepIsSinkBlind ==
    (pc = "loop" /\ pc' # "loop" /\ pc' # "requested") =>
        /\ pc' = "done"
        /\ result' = TRUE
        /\ file' = file
        /\ reqs' = reqs

\* C26: with a sink attached and with none the download makes the same
\* requests and writes and returns the same result: where the code branches
\* on the sink (after an accepted chunk, at the loop's exit) both branches
\* go on alike, and only the channel of the progress report differs.
C26_SinkChangesOnlyDelivery ==
    /\ [][AcceptStepIsSinkBlind /\ ExitStepIsSinkBlind]_vars
    /\ [](Len(Queued) + Len(Printed) = Len(accepted))

C26_Witness ==
    /\ ~sink
    /\ ChunkLoopSuccess
    /\ Len(Printed) = 2
    /\ Len(RangedReqs) = 2
    /\ Returned
    /\ ret.success


(* ---------------------- handles on the destination --------------------- *)

\* every change of the destination is made through the one handle that is
\* open: by open() itself, by the loop through its handle, or by the
\* fallback once the loop's handle is closed
OneWriter ==
    file' # file =>
        \/ pc = "resume" /\ ~isOpen /\ isOpen'
        \/ pc = "requested" /\ isOpen
        \/ pc = "fallbackreq" /\ ~isOpen /\ ~isOpen'

\* C27: during one download call at most one open handle writes to the
\* destination: the loop's handle exists only inside the loop, the fallback
\* opens the file only after that handle has been closed, and nothing else
\* changes the file.
C27_SingleHandle ==
    /\ [](isOpen => pc \in {"loop", "requested"})
    /\ [](pc \in {"fallback", "fallbackreq", "done"} => ~isOpen)
    /\ [][OneWriter]_vars

C27_Witness ==
    /\ pc = "done"
    /\ fallbacks = 1
    /\ Len(accepted) >= 2
    /\ mode = "wb"
    /\ initLen > 0
    /\ file = Bytes(srvTotal, "fallback")
    /\ srvTotal > 0


(* ------------------- the window of gui_simple_download ----------------- *)

\* messages download() may put on the queue for one operation
MaxPuts == 2

\* downloads started from one window
MaxOps == 1

\* everything but the window
dlVars == <<pc, srvTotal, chunk_size, headers, initLen, file, mode, isOpen,
            resp, size, downloaded, req, last, reqs, accepted, events, n403,
            fallbacks, result, url, cookies, clock, output, calls, stale,
            ret, fix, no_auth, headers_file, cookies_file, defHeaders,
            defCookies, sink>>

coreVars == <<dlVars, pipeVars, appVars, libVars>>

\* a dict put on the queue by ProgressCallback
Msg(t, ok, pct) == [type |-> t, success |-> ok, percent |-> pct]

\* operations started so far; the latest one owns self.progress_queue and
\* self.worker_thread
Ops == Len(wk)

\* threading.Thread.is_alive()
IsAlive(i) == wk[i] \in {"init", "download", "complete", "saved"}

\* queue.put by the worker of operation i
Put(i, m) == gq' = [gq EXCEPT ![i] = Append(@, m)]

\* a worker that re-enabled the start button itself
WorkerWidgets_direct ==
    /\ button' = "normal"
    /\ UNCHANGED <<bar, label, logn>>

\* the worker leaves the widgets alone
WorkerWidgets == UNCHANGED <<bar, label, logn, button>>

\* _start_download, on the GUI thread (a disabled button takes no click)
ClickStart ==
    /\ gpc = "idle"
    /\ button = "normal"
    /\ Ops < MaxOps
    /\ button' = "disabled"
    /\ bar' = 0
    /\ label' = "Starting download..."
    /\ logn' = logn + 1
    /\ gq' = Append(gq, <<>>)
    /\ wk' = Append(wk, "init")
    /\ wok' = Append(wok, FALSE)
    /\ puts' = Append(puts, 0)
    /\ pending' = pending + 1
    /\ UNCHANGED <<gpc, coreVars>>

\* _clear_log, on the GUI thread
ClickClear ==
    /\ gpc = "idle"
    /\ logn > 0
    /\ logn' = 0
    /\ UNCHANGED <<gq, wk, wok, puts, gpc, pending, bar, label, button,
                   coreVars>>

\* _download_worker: callback.log("Initializing download...")
WorkerInit ==
    \E i \in 1..Ops :
       /\ wk[i] = "init"
       /\ Put(i, Msg("log", FALSE, 0))
       /\ wk' = [wk EXCEPT ![i] = "download"]
       /\ WorkerWidgets
       /\ UNCHANGED <<wok, puts, gpc, pending, coreVars>>

\* inside download(): _log or progress_callback.update puts a message
WorkerPut ==
    \E i \in 1..Ops, m \in {Msg("log", FALSE, 0), Msg("progress", FALSE, 50)} :
       /\ wk[i] = "download"
       /\ puts[i] < MaxPuts
       /\ Put(i, m)
       /\ puts' = [puts EXCEPT ![i] = @ + 1]
       /\ WorkerWidgets
       /\ UNCHANGED <<wk, wok, gpc, pending, coreVars>>

\* download() returns its tuple, True or False, without an exception
WorkerReturn ==
    \E i \in 1..Ops, ok \in BOOLEAN :
       /\ wk[i] = "download"
       /\ wok' = [wok EXCEPT ![i] = ok]
       /\ wk' = [wk EXCEPT ![i] = "complete"]
       /\ WorkerWidgets
       /\ UNCHANGED <<gq, puts, gpc, pending, coreVars>>

\* download() returns from its handler: _log(error_msg, "error") and
\* progress_callback.error(error_msg, e), then (False, "", error_msg)
WorkerReturnError ==
    \E i \in 1..Ops :
       /\ wk[i] = "download"
       /\ gq' = [gq EXCEPT ![i] = @ \o <<Msg("log", FALSE, 0),
                                          Msg("error", FALSE, 0)>>]
       /\ wok' = [wok EXCEPT ![i] = FALSE]
       /\ wk' = [wk EXCEPT ![i] = "complete"]
       /\ WorkerWidgets
       /\ UNCHANGED <<puts, gpc, pending, coreVars>>

\* callback.complete(success, ...)
WorkerComplete ==
    \E i \in 1..Ops :
       /\ wk[i] = "complete"
       /\ Put(i, Msg("complete", wok[i], 0))
       /\ wk' = [wk EXCEPT ![i] = IF wok[i] THEN "saved" ELSE "dead"]
       /\ WorkerWidgets
       /\ UNCHANGED <<wok, puts, gpc, pending, coreVars>>

\* if success: callback.log("File saved to: ..."); the thread ends
WorkerSaved ==
    \E i \in 1..Ops :
       /\ wk[i] = "saved"
       /\ Put(i, Msg("log", FALSE, 0))
       /\ wk' = [wk EXCEPT ![i] = "dead"]
       /\ WorkerWidgets
       /\ UNCHANGED <<wok, puts, gpc, pending, coreVars>>


\* a scheduled _check_queue starts on the GUI thread
PollBegin ==
    /\ gpc = "idle"
    /\ pending > 0
    /\ pending' = pending - 1
    /\ gpc' = "draining"
    /\ UNCHANGED <<gq, wk, wok, puts, bar, label, logn, button, coreVars>>

\* _process_queue_message: what a message does to the widgets
Handle(m) ==
    /\ logn' = logn + 1
    /\ bar' = IF m.type = "progress" THEN m.percent
              ELSE IF m.type = "complete"
                   THEN (IF m.success THEN 100 ELSE 0)
              ELSE bar
    /\ label' = IF m.type = "progress" THEN "progress"
                ELSE IF m.type = "complete"
                     THEN (IF m.success THEN "Complete" ELSE "Failed")
                ELSE IF m.type = "error" THEN "Error"
                ELSE label
    /\ button' = IF m.type \in {"complete", "error"} THEN "normal" ELSE button

\* msg = self.progress_queue.get_nowait(); self._process_queue_message(msg)
PollTake ==
    /\ gpc = "draining"
    /\ gq[Ops] # <<>>
    /\ Handle(Head(gq[Ops]))
    /\ gq' = [gq EXCEPT ![Ops] = Tail(@)]
    /\ UNCHANGED <<wk, wok, puts, gpc, pending, coreVars>>

\* get_nowait raises queue.Empty: the drain loop is over
PollEmpty ==
    /\ gpc = "draining"
    /\ gq[Ops] = <<>>
    /\ gpc' = "drained"
    /\ UNCHANGED <<gq, wk, wok, puts, pending, bar, label, logn, button,
                   coreVars>>

\* if self.worker_thread.is_alive(): self.after(100, self._check_queue)
PollTest ==
    /\ gpc = "drained"
    /\ pending' = IF IsAlive(Ops) THEN pending + 1 ELSE pending
    /\ gpc' = "idle"
    /\ UNCHANGED <<gq, wk, wok, puts, bar, label, logn, button, coreVars>>

\* the window with its worker threads; download() is seen through the
\* messages it puts and the tuple it returns
NextGui ==
    \/ ClickStart
    \/ ClickClear
    \/ WorkerInit
    \/ WorkerPut
    \/ WorkerReturn
    \/ WorkerReturnError
    \/ WorkerComplete
    \/ WorkerSaved
    \/ PollBegin
    \/ PollTake
    \/ PollEmpty
    \/ PollTest

\* one window; the downloader's own state stays as download() finds it
InitGui ==
    /\ InitOf({0}, {NoFile}, {NoFile}, {TRUE})
    /\ initLen = 0
    /\ chunk_size = 1
    /\ ~no_auth
    /\ url = CHOOSE u \in URLs : DetectFileType(u) = "video"

SpecGui == InitGui /\ [][NextGui]_vars

\* a step changes a widget
WidgetsChange == <<bar, label, logn, button>>' # <<bar, label, logn, button>>

\* a step of the GUI thread that handles a message taken from the queue
TakesMessage ==
    /\ gpc = "draining"
    /\ Ops > 0 /\ gq[Ops] # <<>>
    /\ gq' = [gq EXCEPT ![Ops] = Tail(@)]

\* a step of the GUI thread in a button's command
ClickStep ==
    /\ gpc = "idle" /\ gpc' = "idle"
    /\ \/ Len(wk') = Len(wk) + 1
       \/ logn' = 0 /\ UNCHANGED <<bar, label, button, gq, wk>>

\* some worker thread is running
SomeAlive == \E i \in 1..Ops : IsAlive(i)

\* C28 (as stated): while a worker runs, every change to the progress bar,
\* the status label, the log widget and the start button is made by the GUI
\* thread while it handles a message taken from the progress queue.
C28_WidgetsChangeOnMessagesOnly ==
    [][(WidgetsChange /\ SomeAlive) => TakesMessage]_vars

\* C28 (amended): the worker changes no widget; every change is made by
\* the GUI thread, either while it handles a message taken from the queue
\* or in the command of a button (Start, Clear Log).
C28_WidgetsChangeOnGuiThread ==
    /\ [][WidgetsChange => (TakesMessage \/ ClickStep)]_vars
    /\ [][(wk' # wk /\ Len(wk') = Len(wk)) => ~WidgetsChange]_vars

C28_Witness ==
    /\ Ops = 1
    /\ IsAlive(1)
    /\ puts[1] = MaxPuts
    /\ gq[1] = <<>>
    /\ label = "progress"
    /\ bar = 50
    /\ logn = 1
    /\ button = "disabled"


(* --------------------------- Pipeline.run ------------------------------ *)

\* how a stage's call can end: (True, ...), (False, ...), or an exception
Outcomes == {"ok", "fail", "raise"}

\* "if not success: return False, results, error_msg": a stage that failed
\* ends the run, one that succeeded lets the next begin
StageTarget_ignore(ok, next) == next

StageTarget(ok, next) == IF ok THEN next ELSE "returned"

\* results[key] = ..., only after the stage's success
ResultsAfter(ok, key) == IF ok THEN Append(results, key) ELSE results

\* one stage of run(): its call, the test of its flag, the key it adds;
\* an exception reaches the handler at the end of run()
Stage(name, key, next, o) ==
    /\ stage = name
    /\ ran' = Append(ran, name)
    /\ completed' = IF o = "ok" THEN Append(completed, name) ELSE completed
    /\ results' = ResultsAfter(o = "ok", key)
    /\ stage' = IF o = "raise" THEN "returned" ELSE StageTarget(o = "ok", next)
    /\ success' = IF stage' = "returned" THEN "False" ELSE success

\* stage 1: the tuple download() returned
PipeDownload ==
    /\ Returned
    /\ Stage("download", "video", "transcribe",
             IF ret.success THEN "ok" ELSE "fail")
    /\ UNCHANGED <<dlVars, guiVars, appVars,
                   libVars>>

\* stage 2: self.transcriber.transcribe(...)
PipeTranscribe ==
    /\ \E o \in Outcomes : Stage("transcribe", "transcript", "auth", o)
    /\ UNCHANGED <<dlVars, guiVars, appVars,
                   libVars>>

\* AuthManager.get_api_key in its own try: a failure returns at once
PipeAuth ==
    /\ stage = "auth"
    /\ \E ok \in BOOLEAN :
          /\ stage' = IF ok THEN "analyze" ELSE "returned"
          /\ success' = IF ok THEN success ELSE "False"
    /\ UNCHANGED <<results, ran, completed, dlVars, guiVars, appVars,
                   libVars>>

\* stage 3: self.analyzer.analyze(...)
PipeAnalyze ==
    /\ \E o \in Outcomes : Stage("analyze", "analysis", "finish", o)
    /\ UNCHANGED <<dlVars, guiVars, appVars,
                   libVars>>

\* the closing log lines, then return True; an exception in them reaches
\* the handler
PipeFinish ==
    /\ stage = "finish"
    /\ stage' = "returned"
    /\ success' \in {"True", "False"}
    /\ UNCHANGED <<results, ran, completed, dlVars, guiVars, appVars,
                   libVars>>

NextPipe ==
    \/ Next
    \/ PipeDownload
    \/ PipeTranscribe
    \/ PipeAuth
    \/ PipeAnalyze
    \/ PipeFinish

\* run() on a fresh Downloader, before two resources
InitPipe ==
    /\ InitOf({0, ProfileTotal}, {NoFile}, {NoFile}, {TRUE})
    /\ initLen = 0

SpecPipe == InitPipe /\ [][NextPipe]_vars

StageOrder == <<"download", "transcribe", "analyze">>

KeyOrder == <<"video", "transcript", "analysis">>

\* s is the first Len(s) elements of t
IsPrefix(s, t) == Len(s) <= Len(t) /\ \A i \in 1..Len(s) : s[i] = t[i]

\* C29: Pipeline.run runs its stages in the order download, transcribe,
\* analyze; a stage starts only after the previous one returned success;
\* after a failure no later stage runs, and the results dict holds exactly
\* the keys of the stages that completed, in the order video, transcript,
\* analysis; success is returned only with all three keys present.
C29_StagesInOrder ==
    /\ IsPrefix(ran, StageOrder)
    /\ IsPrefix(completed, ran)
    /\ Len(ran) <= Len(completed) + 1
    /\ Len(results) = Len(completed)
    /\ IsPrefix(results, KeyOrder)
    /\ (Len(ran) > Len(completed)) => (stage = "returned" /\ success = "False")
    /\ (success = "True") => (results = KeyOrder /\ stage = "returned")

C29_Witness ==
    /\ success = "False"
    /\ ran = <<"download", "transcribe">>
    /\ results = <<"video">>
    /\ pc = "done"
    /\ Len(file) = ProfileTotal


\* C30: after every chunk-loop iteration that advances downloaded, the
\* destination's length equals downloaded, whatever body the server sends
\* with status 200 or 206 (the whole resource on a 200 that ignores Range, or
\* a body shorter than the requested range).
C30_LengthTracksDownloaded ==
    [][(pc = "requested" /\ downloaded' > downloaded)
          => Len(file') = downloaded']_vars


(* ------------------------ status of the fallback ----------------------- *)

\* the fallback's GET was answered in this call
FallbackAnswered == pc = "done" /\ resp.status # 0

\* C31: download() returns success = True only if the last GET that supplied
\* file content was answered with status 200 or 206; the fallback reports
\* failure when its GET is answered with an error status such as 403 or 404.
C31_SuccessNeedsGoodStatus ==
    (Returned /\ ret.success /\ FallbackAnswered) => resp.status \in {200, 206}


(* ------------------------ the window, scheduled ------------------------ *)

\* a step of some worker thread
WorkerStep ==
    \/ WorkerInit
    \/ WorkerPut
    \/ WorkerReturn
    \/ WorkerReturnError
    \/ WorkerComplete
    \/ WorkerSaved

\* a step of the GUI thread inside _check_queue
PollStep ==
    \/ PollBegin
    \/ PollTake
    \/ PollEmpty
    \/ PollTest

\* threads run and Tk's event loop fires every callback scheduled with
\* after(); the user clicks when they like
LiveGui == SpecGui /\ WF_vars(WorkerStep) /\ WF_vars(PollStep)

\* C32: every message a worker puts on the progress queue is eventually
\* taken and handled by the GUI thread, whatever the interleaving of the
\* worker's last puts, its termination and the GUI's poll; after each
\* started operation the Start button is eventually re-enabled.
C32_EveryMessageHandled ==
    /\ \A i \in 1..MaxOps :
          (i <= Ops /\ gq[i] # <<>>) ~> (i <= Ops /\ gq[i] = <<>>)
    /\ (button = "disabled") ~> (button = "normal")


\* terminal messages (type 'complete' or 'error') waiting in a queue
Terminals(q) ==
    Cardinality({k \in 1..Len(q) : q[k].type \in {"complete", "error"}})

\* C33: for every operation started from the GUI the worker enqueues exactly
\* one terminal message, so one result dialog is shown per operation, whether
\* it succeeds, returns failure or raises; no operation's queue ever holds
\* two of them.
C33_OneTerminalMessage ==
    \A i \in 1..Ops : Terminals(gq[i]) <= 1


(* ----------------------- gui_complete.py: the tabs --------------------- *)

\* two of the four tabs; all four start operations the same way
Tabs == {"download", "transcribe"}

\* operations a behaviour may start
MaxStarts == 2

\* threading.Thread.is_alive() of operation i's worker
AppAlive(i) == workers[i] # "dead"

\* a dict put on a queue, with the tab of the operation that put it
AppMsg(type, i) == [type |-> type, from |-> tabOf[i]]

\* _start_download, _start_transcribe, ...: disable this tab's button, make
\* a new queue and a new thread in the two shared attributes, schedule the
\* first poll for this tab's widgets (a disabled button takes no click)
AppStart ==
    \E t \in Tabs :
       /\ gui.at = "idle"
       /\ buttons[t] = "normal"
       /\ Len(workers) < MaxStarts
       /\ buttons' = [buttons EXCEPT ![t] = "disabled"]
       /\ queues' = Append(queues, <<>>)
       /\ progress_queue' = Len(queues) + 1
       /\ workers' = Append(workers, "started")
       /\ bound' = Append(bound, 0)
       /\ tabOf' = Append(tabOf, t)
       /\ polls' = [polls EXCEPT ![t] = @ + 1]
       /\ UNCHANGED <<gui, shown, dlVars, pipeVars, guiVars,
                      libVars>>

\* callback = ProgressCallback(self.progress_queue), on the worker thread
AppWorkerBind ==
    \E i \in 1..Len(workers) :
       /\ workers[i] = "started"
       /\ bound' = [bound EXCEPT ![i] = progress_queue]
       /\ workers' = [workers EXCEPT ![i] = "running"]
       /\ UNCHANGED <<queues, progress_queue, tabOf, buttons, polls, gui,
                      shown, dlVars, pipeVars, guiVars,
                      libVars>>

\* the operation reports through its callback
AppWorkerLog ==
    \E i \in 1..Len(workers) :
       /\ workers[i] = "running"
       /\ queues' = [queues EXCEPT ![bound[i]] = Append(@, AppMsg("log", i))]
       /\ workers' = [workers EXCEPT ![i] = "finishing"]
       /\ UNCHANGED <<progress_queue, bound, tabOf, buttons, polls, gui,
                      shown, dlVars, pipeVars, guiVars,
                      libVars>>

\* callback.complete(success, message); the thread ends
AppWorkerComplete ==
    \E i \in 1..Len(workers) :
       /\ workers[i] = "finishing"
       /\ queues' = [queues EXCEPT
                        ![bound[i]] = Append(@, AppMsg("complete", i))]
       /\ workers' = [workers EXCEPT ![i] = "dead"]
       /\ UNCHANGED <<progress_queue, bound, tabOf, buttons, polls, gui,
                      shown, dlVars, pipeVars, guiVars,
                      libVars>>

\* a scheduled _check_queue(progress_panel, log_widget, start_button) of
\* tab t starts on the GUI thread
AppPollBegin ==
    \E t \in Tabs :
       /\ gui.at = "idle"
       /\ polls[t] > 0
       /\ polls' = [polls EXCEPT ![t] = @ - 1]
       /\ gui' = [at |-> "draining", tab |-> t]
       /\ UNCHANGED <<queues, progress_queue, workers, bound, tabOf, buttons,
                      shown, dlVars, pipeVars, guiVars,
                      libVars>>

\* msg = self.progress_queue.get_nowait(), handled against the widgets the
\* callback was scheduled with
AppPollTake ==
    /\ gui.at = "draining"
    /\ queues[progress_queue] # <<>>
    /\ LET m == Head(queues[progress_queue])
       IN  /\ shown' = shown \cup {<<m.from, gui.tab>>}
           /\ buttons' = IF m.type = "complete"
                         THEN [buttons EXCEPT ![gui.tab] = "normal"]
                         ELSE buttons
    /\ queues' = [queues EXCEPT ![progress_queue] = Tail(@)]
    /\ UNCHANGED <<progress_queue, workers, bound, tabOf, polls, gui,
                   dlVars, pipeVars, guiVars,
                      libVars>>

\* get_nowait raises queue.Empty
AppPollEmpty ==
    /\ gui.at = "draining"
    /\ queues[progress_queue] = <<>>
    /\ gui' = [gui EXCEPT !.at = "drained"]
    /\ UNCHANGED <<queues, progress_queue, workers, bound, tabOf, buttons,
                   polls, shown, dlVars, pipeVars, guiVars,
                      libVars>>

\* if self.worker_thread.is_alive(): self.after(100, ...) for the same tab
AppPollTest ==
    /\ gui.at = "drained"
    /\ polls' = IF AppAlive(Len(workers))
                THEN [polls EXCEPT ![gui.tab] = @ + 1]
                ELSE polls
    /\ gui' = [gui EXCEPT !.at = "idle"]
    /\ UNCHANGED <<queues, progress_queue, workers, bound, tabOf, buttons,
                   shown, dlVars, pipeVars, guiVars,
                      libVars>>

NextApp ==
    \/ AppStart
    \/ AppWorkerBind
    \/ AppWorkerLog
    \/ AppWorkerComplete
    \/ AppPollBegin
    \/ AppPollTake
    \/ AppPollEmpty
    \/ AppPollTest

SpecApp == InitGui /\ [][NextApp]_vars

\* worker threads alive
AliveWorkers == {i \in 1..Len(workers) : AppAlive(i)}

\* C34: at any time at most one worker thread started by the GUI is alive: a
\* Start button cannot launch a new worker while a previously started one
\* is still running, in the single window and across the tabs.
C34_OneWorkerAlive == Cardinality(AliveWorkers) <= 1


\* C35: in the complete application every message enqueued by the worker of
\* an operation is handled against the widgets of the tab that started the
\* operation and never against another tab's, whatever the order in which
\* operations are started on different tabs.
C35_MessagesStayInTheirTab == \A p \in shown : p[1] = p[2]


(* ------------------- main.py: download_video, the CLI ------------------ *)

\* with open(output, "ab") in the except branch of download_video
CliFallbackMode == "ab"

\* the destination after download_video's except branch wrote body to a
\* destination holding f
CliFileAfterFallback(f, body) ==
    (IF CliFallbackMode = "wb" THEN <<>> ELSE f) \o body

\* the body the fallback's GET delivered in this step
FallbackBody ==
    IF FallbackMode = "wb" THEN file'
    ELSE SubSeq(file', Len(file) + 1, Len(file'))

\* C36: download_video of the command line and _download_with_resume are
\* equivalent: same server answers and same initial destination give the
\* same requests and the same file contents, also on the exception and
\* fallback path. Both run the same probe and loop, so they reach the
\* fallback with the same destination; the fallback must then leave the
\* same file.
C36_CliLeavesSameFile ==
    [][(pc = "fallbackreq" /\ pc' = "done")
          => file' = CliFileAfterFallback(file, FallbackBody)]_vars


(* ------------------- Transcriber: the cached model --------------------- *)

\* three of AVAILABLE_MODELS, and a size that is not one of them
AVAILABLE_MODELS == {"tiny", "base", "small"}

ModelSizes == AVAILABLE_MODELS \cup {"huge"}

\* AVAILABLE_DEVICES, and a device that is not one of them
AVAILABLE_DEVICES == {"cpu", "cuda"}

Devices == AVAILABLE_DEVICES \cup {"tpu"}

\* self._model = None
NoModel == [size |-> "", device |-> ""]

\* if device == 'cuda' and not torch.cuda.is_available(): device = 'cpu'
EffectiveDevice(device, cuda) ==
    IF device = "cuda" /\ ~cuda THEN "cpu" ELSE device

\* the test at the head of _get_model
CacheHit_sizeonly(model_size, device) ==
    /\ whisper # NoModel
    /\ current_model_size = model_size

CacheHit(model_size, device) ==
    /\ whisper # NoModel
    /\ current_model_size = model_size
    /\ current_device = device

\* transcribe(audio_file, output_dir, device, model_size) up to the return
\* of _get_model: cuda is torch.cuda.is_available(), loads tells whether
\* WhisperModel(...) returns or raises
Transcribe ==
    \E model_size \in ModelSizes, device \in Devices, cuda \in BOOLEAN,
       loads \in BOOLEAN :
       LET eff == EffectiveDevice(device, cuda)
           how == IF device \notin AVAILABLE_DEVICES THEN "rejected"
                  ELSE IF model_size \notin AVAILABLE_MODELS THEN "rejected"
                  ELSE IF CacheHit(model_size, eff) THEN "reused"
                  ELSE IF loads THEN "loaded"
                  ELSE "failed"
       IN  /\ lastCall' = [size |-> model_size, device |-> device,
                           cuda |-> cuda, how |-> how]
           /\ whisper' = IF how = "loaded"
                         THEN [size |-> model_size, device |-> eff]
                         ELSE whisper
           /\ current_model_size' = IF how = "loaded" THEN model_size
                                    ELSE current_model_size
           /\ current_device' = IF how = "loaded" THEN eff ELSE current_device
           /\ UNCHANGED <<lines, max_tokens, overlap, chunks, current_chunk,
                          current_length, lineNo, dlVars, pipeVars, guiVars,
                          appVars>>

NextTranscriber == Transcribe

SpecTranscriber == InitGui /\ [][NextTranscriber]_vars

\* a step that is a transcribe() call reaching _get_model
ModelRequested ==
    /\ <<whisper, current_model_size, current_device, lastCall>>'
          # <<whisper, current_model_size, current_device, lastCall>>
    /\ lastCall'.how # "rejected"

\* C37 (as stated): the cached model is reused exactly when the requested
\* (model_size, device) equals the pair recorded for the cached model.
C37_ReusedIffRequestedPair ==
    [][ModelRequested =>
          (lastCall'.how = "reused"
             <=> /\ whisper # NoModel
                 /\ lastCall'.size = current_model_size
                 /\ lastCall'.device = current_device)]_vars

\* C37 (amended): the cached model is reused exactly when the requested
\* model_size and the device after the CUDA fallback equal the recorded
\* pair; the recorded pair always describes the model held; a failed load
\* leaves the model and its pair unchanged together.
C37_ReusedIffEffectivePair ==
    /\ [][ModelRequested =>
            (lastCall'.how = "reused"
               <=> /\ whisper # NoModel
                   /\ lastCall'.size = current_model_size
                   /\ EffectiveDevice(lastCall'.device, lastCall'.cuda)
                         = current_device)]_vars
    /\ [](whisper = [size |-> current_model_size, device |-> current_device])
    /\ [][lastCall'.how \in {"failed", "reused", "rejected"} =>
            UNCHANGED <<whisper, current_model_size, current_device>>]_vars

C37_Witness ==
    /\ lastCall.how = "reused"
    /\ lastCall.device = "cuda"
    /\ ~lastCall.cuda
    /\ whisper = [size |-> "base", device |-> "cpu"]


(* ------------------- Analyzer._split_into_chunks ----------------------- *)

\* lines of a text, length of a line, max_tokens
MaxLines == 3

MaxLineLen == 3

MaxTok == 3

RECURSIVE SumOf(_)
\* total length of the lines of a chunk
SumOf(c) == IF c = <<>> THEN 0 ELSE Head(c) + SumOf(Tail(c))

\* len('\n'.join(c))
JoinedLen(c) == IF c = <<>> THEN 0 ELSE SumOf(c) + Len(c) - 1

RECURSIVE OverlapLines(_, _, _, _)
\* for l in reversed(current_chunk): keep l while overlap_length + len(l)
\* stays below overlap; i is the line looked at, acc is overlap_length
OverlapLines(c, i, acc, ov) ==
    IF i = 0 THEN <<>>
    ELSE IF acc + c[i] < ov
         THEN Append(OverlapLines(c, i - 1, acc + c[i], ov), c[i])
         ELSE <<>>

\* "if current_length + line_length > max_tokens and current_chunk"
MustFlush(len, line_length, max, c) == len + line_length > max /\ c # <<>>

\* what the next chunk starts with after a flush
Carried(c, ov) ==
    IF JoinedLen(c) > ov THEN OverlapLines(c, Len(c), 0, ov) ELSE <<>>

\* every text of up to MaxLines lines
Texts == UNION {[1..n -> 0..MaxLineLen] : n \in 1..MaxLines}

\* _split_into_chunks(text, max_tokens, overlap) is called
SplitCall ==
    /\ lineNo = -1
    /\ lines' \in Texts
    /\ max_tokens' \in 1..MaxTok
    /\ overlap' \in 0..(max_tokens' - 1)
    /\ chunks' = <<>>
    /\ current_chunk' = <<>>
    /\ current_length' = 0
    /\ lineNo' = 0
    /\ UNCHANGED <<whisper, current_model_size, current_device, lastCall,
                   dlVars, pipeVars, guiVars, appVars>>

\* one pass of "for line in lines"
SplitLine ==
    /\ lineNo >= 0
    /\ lineNo < Len(lines)
    /\ LET line_length == lines[lineNo + 1]
           flush == MustFlush(current_length, line_length, max_tokens,
                              current_chunk)
           kept == IF flush THEN Carried(current_chunk, overlap)
                   ELSE current_chunk
           kept_length == IF flush THEN SumOf(kept) ELSE current_length
       IN  /\ chunks' = IF flush THEN Append(chunks, current_chunk)
                        ELSE chunks
           /\ current_chunk' = Append(kept, line_length)
           /\ current_length' = kept_length + line_length
    /\ lineNo' = lineNo + 1
    /\ UNCHANGED <<lines, max_tokens, overlap, whisper, current_model_size,
                   current_device, lastCall, dlVars, pipeVars, guiVars,
                   appVars>>

\* "if current_chunk: chunks.append(...)"; return chunks
SplitReturn ==
    /\ lineNo = Len(lines)
    /\ chunks' = IF current_chunk # <<>> THEN Append(chunks, current_chunk)
                 ELSE chunks
    /\ lineNo' = -1
    /\ UNCHANGED <<lines, max_tokens, overlap, current_chunk, current_length,
                   whisper, current_model_size, current_device, lastCall,
                   dlVars, pipeVars, guiVars, appVars>>

NextSplit ==
    \/ SplitCall
    \/ SplitLine
    \/ SplitReturn

SpecSplit == InitGui /\ [][NextSplit]_vars

\* C38: every chunk returned by _split_into_chunks has total line length at
\* most max_tokens unless it is a single line longer than max_tokens, for
\* every text and every overlap < max_tokens.
C38_ChunksWithinMax ==
    \A k \in 1..Len(chunks) :
        \/ SumOf(chunks[k]) <= max_tokens
        \/ Len(chunks[k]) = 1 /\ chunks[k][1] > max_tokens

=============================================================================
